---- MODULE Spec2Model ----
(***************************************************************************)
(* github-actions-mcp-server: the tool handlers of src/index.ts and the    *)
(* nine operation functions of src/operations/actions.ts, as one tool call *)
(* moving through validation, URL building, the HTTP request, response     *)
(* parsing and the boundary error handler.                                 *)
(***************************************************************************)
EXTENDS Integers, Sequences, FiniteSets, TLC

VARIABLES
  registered,\* the tool names registered with the server, in order
  pc,        \* position of the call inside handler / operation
  tool,      \* name of the registered tool that was invoked ("" when idle)
  params,    \* the parameters the protocol layer handed to the handler
  op,        \* the operation function the handler called
  args,      \* the arguments the handler passed to the operation
  owner,     \* local `owner` of the operation (reassigned by the validator)
  repo,      \* local `repo` of the operation (reassigned by the validator)
  validated, \* which of "owner", "repo" have passed their validator
  request,   \* the request built by the operation (url, method, body)
  sent,      \* the outbound requests handed to githubRequest in this call
  upstream,  \* what came back from the network for the pending request
  raw,       \* the decoded body githubRequest returned to the operation
  raised,    \* the error thrown inside the operation (class "" when none)
  result,    \* the value the operation's promise resolved with
  caught,    \* the error the handler's catch block received
  response,  \* what the handler returned to the protocol layer
  escaped    \* TRUE when an exception left the handler

vars == <<registered, pc, tool, params, op, args, owner, repo, validated, request, sent,
          upstream, raw, raised, result, caught, response, escaped>>

----------------------------------------------------------------------------
(* JavaScript values: undefined | number | string | boolean.               *)

MaxRunId == 2

Undefined == [kind |-> "undefined", num |-> 0, str |-> "", bool |-> FALSE]
Num(n)    == [kind |-> "number", num |-> n, str |-> "", bool |-> FALSE]
Str(s)    == [kind |-> "string", num |-> 0, str |-> s, bool |-> FALSE]
Bool(b)   == [kind |-> "boolean", num |-> 0, str |-> "", bool |-> b]

IsDefined(v) == v.kind # "undefined"

\* ToBoolean of the language: 0, "" , false and undefined are falsy
Truthy(v) ==
  CASE v.kind = "undefined" -> FALSE
    [] v.kind = "number"    -> v.num # 0
    [] v.kind = "string"    -> v.str # ""
    [] v.kind = "boolean"   -> v.bool

\* string conversion as done by a template literal / toString()
ToStr(v) ==
  CASE v.kind = "undefined" -> "undefined"
    [] v.kind = "number"    -> ToString(v.num)
    [] v.kind = "string"    -> v.str
    [] v.kind = "boolean"   -> IF v.bool THEN "true" ELSE "false"

\* Record<string,string> | undefined, as a set of <<key, value>> entries
NoInputs == [defined |-> FALSE, entries |-> {}]
Inputs(e) == [defined |-> TRUE, entries |-> e]
ObjectKeys(i) == {e[1] : e \in i.entries}

----------------------------------------------------------------------------
(* Parameter schemas (actions.ts 17-84): the fields each tool accepts and  *)
(* the values drawn for them.                                              *)

ParamNames == {"workflowId", "actor", "branch", "event",
               "status", "created", "excludePullRequests", "checkSuiteId",
               "page", "perPage", "runId", "filter", "ref"}

\* names are sequences of characters so that the validators can look at them
OwnerNames == { <<"o", "c", "t">>, <<"-", "o">> }
RepoNames  == { <<"r", "1">>, <<"r", " ">> }

WorkflowIds == {Num(0), Num(7), Str(""), Str("ci.yml")}
RunIds      == {Num(n) : n \in 1..MaxRunId}
Opt(S)      == {Undefined} \cup S

InputMaps == {NoInputs, Inputs({}), Inputs({<<"env", "prod">>}),
              Inputs({<<"env", "prod">>, <<"tag", "v1">>})}

NoFields == [n \in ParamNames |-> Undefined]

\* the record of a call's parameters: named fields set, all others undefined
WithFields(f) == [n \in ParamNames |-> IF n \in DOMAIN f THEN f[n] ELSE Undefined]

ListWorkflowsSchema ==
  { WithFields([page |-> p, perPage |-> pp]) :
      p \in Opt({Num(2)}), pp \in Opt({Num(50)}) }

GetWorkflowSchema ==
  { WithFields([workflowId |-> w]) : w \in WorkflowIds }

GetWorkflowUsageSchema == GetWorkflowSchema

ListWorkflowRunsSchema ==
  { WithFields([workflowId |-> w, actor |-> a, branch |-> b, event |-> e,
                status |-> s, created |-> c, excludePullRequests |-> x,
                checkSuiteId |-> k, page |-> p, perPage |-> pp]) :
      w \in Opt(WorkflowIds), a \in Opt({Str("bob")}), b \in Opt({Str("main")}),
      e \in Opt({Str("push")}), s \in Opt({Str("queued")}),
      c \in Opt({Str("2024-01-01")}), x \in Opt({Bool(TRUE), Bool(FALSE)}),
      k \in Opt({Num(9)}), p \in Opt({Num(2)}), pp \in Opt({Num(50)}) }

GetWorkflowRunSchema ==
  { WithFields([runId |-> r]) : r \in RunIds }

GetWorkflowRunJobsSchema ==
  { WithFields([runId |-> r, filter |-> f, page |-> p, perPage |-> pp]) :
      r \in RunIds, f \in Opt({Str("latest"), Str("all")}),
      p \in Opt({Num(2)}), pp \in Opt({Num(50)}) }

TriggerWorkflowSchema ==
  { WithFields([workflowId |-> w, ref |-> r]) :
      w \in WorkflowIds, r \in {Str("main")} }

CancelWorkflowRunSchema ==
  { WithFields([runId |-> r]) : r \in RunIds }

RerunWorkflowSchema == CancelWorkflowRunSchema

----------------------------------------------------------------------------
(* common/utils: validateOwnerName, validateRepositoryName, buildUrl.      *)

Letters == {"a", "b", "c", "d", "e", "f", "g", "h", "i", "j", "k", "l", "m",
            "n", "o", "p", "q", "r", "s", "t", "u", "v", "w", "x", "y", "z"}
Digits  == {"0", "1", "2", "3", "4", "5", "6", "7", "8", "9"}

\* account names: alphanumerics and hyphens, no leading or trailing hyphen
OwnerNameValid(o) ==
  /\ Len(o) > 0
  /\ Len(o) <= 39
  /\ \A i \in 1..Len(o) : o[i] \in Letters \cup Digits \cup {"-"}
  /\ o[1] # "-"
  /\ o[Len(o)] # "-"

\* repository names: alphanumerics, hyphen, underscore and dot
RepositoryNameValid(r) ==
  /\ Len(r) > 0
  /\ Len(r) <= 100
  /\ \A i \in 1..Len(r) : r[i] \in Letters \cup Digits \cup {"-", "_", "."}

\* buildUrl(base, params): the base path plus one query entry per key whose
\* value is not undefined, in the order of the mapping, values as strings
RECURSIVE DefinedEntries(_)
DefinedEntries(m) ==
  IF m = <<>> THEN <<>>
  ELSE IF IsDefined(m[1][2])
       THEN << <<m[1][1], ToStr(m[1][2])>> >> \o DefinedEntries(Tail(m))
       ELSE DefinedEntries(Tail(m))

buildUrl(base, m) == [path |-> base, query |-> DefinedEntries(m)]

\* a URL written as a template literal has no query string
PlainUrl(base) == [path |-> base, query |-> <<>>]

QueryKeys(url) == {url.query[i][1] : i \in 1..Len(url.query)}
QueryValue(url, k) ==
  LET i == CHOOSE j \in 1..Len(url.query) : url.query[j][1] = k
  IN  url.query[i][2]

----------------------------------------------------------------------------
(* The operation functions (actions.ts 108-355): URL, method, body.        *)

ReadOps  == {"listWorkflows", "getWorkflow", "getWorkflowUsage",
             "listWorkflowRuns", "getWorkflowRun", "getWorkflowRunJobs"}
WriteOps == {"triggerWorkflow", "cancelWorkflowRun", "rerunWorkflowRun"}
Ops      == ReadOps \cup WriteOps

\* https://api.github.com/repos/${owner}/${repo}/actions
ActionsPath(o, r) == << <<"repos">>, o, r, <<"actions">> >>

RepoRunsPath(o, r)        == ActionsPath(o, r) \o << <<"runs">> >>
WorkflowRunsPath(o, r, w) ==
  ActionsPath(o, r) \o << <<"workflows">>, <<ToStr(w)>>, <<"runs">> >>

\* actions.ts 195-200: the branch on options.workflowId
listWorkflowRunsBase(o, r, a) ==
  IF Truthy(a.workflowId)
  THEN WorkflowRunsPath(o, r, a.workflowId)
  ELSE RepoRunsPath(o, r)

\* actions.ts 202-212: the mapping handed to buildUrl
listWorkflowRunsQuery(a) ==
  << <<"actor", a.actor>>,
     <<"branch", a.branch>>,
     <<"event", a.event>>,
     <<"status", a.status>>,
     <<"created", a.created>>,
     <<"exclude_pull_requests",
       IF Truthy(a.excludePullRequests) THEN Str("true") ELSE Undefined>>,
     <<"check_suite_id", a.checkSuiteId>>,
     <<"page", a.page>>,
     <<"per_page", a.perPage>> >>

UrlOf(o_p, o, r, a) ==
  CASE o_p = "listWorkflows" ->
         buildUrl(ActionsPath(o, r) \o << <<"workflows">> >>,
                  << <<"page", a.page>>, <<"per_page", a.perPage>> >>)
    [] o_p = "getWorkflow" ->
         PlainUrl(ActionsPath(o, r)
                  \o << <<"workflows">>, <<ToStr(a.workflowId)>> >>)
    [] o_p = "getWorkflowUsage" ->
         PlainUrl(ActionsPath(o, r)
                  \o << <<"workflows">>, <<ToStr(a.workflowId)>>, <<"timing">> >>)
    [] o_p = "listWorkflowRuns" ->
         buildUrl(listWorkflowRunsBase(o, r, a), listWorkflowRunsQuery(a))
    [] o_p = "getWorkflowRun" ->
         PlainUrl(ActionsPath(o, r) \o << <<"runs">>, <<ToStr(a.runId)>> >>)
    [] o_p = "getWorkflowRunJobs" ->
         buildUrl(ActionsPath(o, r)
                  \o << <<"runs">>, <<ToStr(a.runId)>>, <<"jobs">> >>,
                  << <<"filter", a.filter>>, <<"page", a.page>>,
                     <<"per_page", a.perPage>> >>)
    [] o_p = "triggerWorkflow" ->
         PlainUrl(ActionsPath(o, r)
                  \o << <<"workflows">>, <<ToStr(a.workflowId)>>,
                        <<"dispatches">> >>)
    [] o_p = "cancelWorkflowRun" ->
         PlainUrl(ActionsPath(o, r)
                  \o << <<"runs">>, <<ToStr(a.runId)>>, <<"cancel">> >>)
    [] o_p = "rerunWorkflowRun" ->
         PlainUrl(ActionsPath(o, r)
                  \o << <<"runs">>, <<ToStr(a.runId)>>, <<"rerun">> >>)

MethodOf(o_p) == IF o_p \in WriteOps THEN "POST" ELSE "GET"

NoBody == [keys |-> {}, ref |-> "", inputs |-> {}]

triggerBody_always(ref, i) ==
  IF i.defined
  THEN [keys |-> {"ref", "inputs"}, ref |-> ToStr(ref), inputs |-> i.entries]
  ELSE [keys |-> {"ref"}, ref |-> ToStr(ref), inputs |-> {}]

\* actions.ts 293-300: { ref }, plus inputs when it has at least one key
triggerBody(ref, i) ==
  IF i.defined /\ Cardinality(ObjectKeys(i)) > 0
  THEN [keys |-> {"ref", "inputs"}, ref |-> ToStr(ref), inputs |-> i.entries]
  ELSE [keys |-> {"ref"}, ref |-> ToStr(ref), inputs |-> {}]

BodyOf(o_p, a, i) ==
  IF o_p = "triggerWorkflow" THEN triggerBody(a.ref, i) ELSE NoBody

RequestOf(o_p, o, r, a, i) ==
  [url |-> UrlOf(o_p, o, r, a), method |-> MethodOf(o_p), body |-> BodyOf(o_p, a, i)]

NoRequest == [url |-> PlainUrl(<<>>), method |-> "", body |-> NoBody]

AckMessage_fixed(o_p, a) ==
  CASE o_p = "triggerWorkflow"   -> <<"Workflow ", "triggered">>
    [] o_p = "cancelWorkflowRun" -> <<"Workflow run ", "cancelled">>
    [] o_p = "rerunWorkflowRun"  -> <<"Workflow run ", "restarted">>

\* actions.ts 308, 331, 354: the message of the success acknowledgment
AckMessage(o_p, a) ==
  CASE o_p = "triggerWorkflow" ->
         <<"Workflow ", ToStr(a.workflowId), " triggered on ", ToStr(a.ref)>>
    [] o_p = "cancelWorkflowRun" ->
         <<"Workflow run ", ToStr(a.runId), " cancelled">>
    [] o_p = "rerunWorkflowRun" ->
         <<"Workflow run ", ToStr(a.runId), " restarted">>

----------------------------------------------------------------------------
(* common/errors: the error classes; common/types: the response schemas.   *)

NoJson   == [present |-> FALSE, json |-> "", shape |-> "", fields |-> {}]
NoDate   == [valid |-> FALSE, epoch |-> 0]

Err(c, m) == [class |-> c, message |-> m, status |-> 0, response |-> NoJson,
              resetAt |-> NoDate, timeoutMs |-> 0, errorCode |-> ""]
NoError  == Err("", "")

GitHubErrorClasses ==
  {"GitHubError", "GitHubValidationError", "GitHubResourceNotFoundError",
   "GitHubAuthenticationError", "GitHubPermissionError", "GitHubRateLimitError",
   "GitHubConflictError", "GitHubTimeoutError", "GitHubNetworkError"}

\* every specialised class extends GitHubError
isGitHubError(e) == e.class \in GitHubErrorClasses

\* the response schema each read operation parses with
SchemaOf(o_p) ==
  CASE o_p = "listWorkflows"      -> "WorkflowsSchema"
    [] o_p = "getWorkflow"        -> "WorkflowSchema"
    [] o_p = "getWorkflowUsage"   -> "WorkflowUsageSchema"
    [] o_p = "listWorkflowRuns"   -> "WorkflowRunsSchema"
    [] o_p = "getWorkflowRun"     -> "WorkflowRunSchema"
    [] o_p = "getWorkflowRunJobs" -> "JobsSchema"
    [] OTHER                      -> ""

RequiredFields(schema) ==
  CASE schema = "WorkflowsSchema"     -> {"total_count", "workflows"}
    [] schema = "WorkflowSchema"      -> {"id", "name", "path", "state"}
    [] schema = "WorkflowUsageSchema" -> {"billable"}
    [] schema = "WorkflowRunsSchema"  -> {"total_count", "workflow_runs"}
    [] schema = "WorkflowRunSchema"   -> {"id", "status", "head_branch"}
    [] schema = "JobsSchema"          -> {"total_count", "jobs"}
    [] OTHER                          -> {}

\* Schema.parse(body) succeeds when every required field is there
SchemaAccepts(schema, body) ==
  body.present /\ RequiredFields(schema) \subseteq body.fields

\* the parsed payload keeps the known fields and ignores the others
SchemaParse(schema, body) ==
  [present |-> TRUE, json |-> body.json, shape |-> schema,
   fields |-> body.fields \cap RequiredFields(schema)]

ZodError(schema, body) ==
  Err("ZodError", "required:" \o schema)

JsonBody(text, shape, fields) ==
  [present |-> TRUE, json |-> text, shape |-> shape, fields |-> fields]

----------------------------------------------------------------------------
(* common/utils githubRequest: what the network can answer and how the     *)
(* adapter classifies it.                                                  *)

TIMEOUT_MS == 30000

NoHeader == [present |-> FALSE, numeric |-> FALSE, secs |-> 0]
NoUpstream ==
  [outcome |-> "", status |-> 0, body |-> NoJson, remainingZero |-> FALSE,
   reset |-> NoHeader, code |-> ""]

Answer(st, b) == [NoUpstream EXCEPT !.outcome = "response", !.status = st, !.body = b]

\* bodies a 2xx can carry for a read of the given schema
OkBodies(schema) ==
  { JsonBody("full", schema, RequiredFields(schema)),
    JsonBody("extra", schema, RequiredFields(schema) \cup {"unknown_field"}),
    NoJson }
  \cup { JsonBody("partial", schema, RequiredFields(schema) \ {f}) :
           f \in RequiredFields(schema) }

ErrorBody == JsonBody("{\"message\":\"upstream says no\"}", "error", {"message"})

ResetHeaders ==
  { [present |-> TRUE, numeric |-> TRUE, secs |-> 1700],
    [present |-> TRUE, numeric |-> FALSE, secs |-> 0],
    NoHeader }

Successes(o_p) ==
  IF o_p \in ReadOps
  THEN { Answer(200, b) : b \in OkBodies(SchemaOf(o_p)) }
  ELSE { Answer(204, NoJson) }

Failures ==
  { Answer(st, ErrorBody) : st \in {401, 403, 404, 409, 422, 500} }
  \cup { Answer(422, NoJson) }
  \cup { [Answer(403, ErrorBody) EXCEPT !.remainingZero = TRUE, !.reset = h] :
           h \in ResetHeaders }

Timeouts == { [NoUpstream EXCEPT !.outcome = "timeout"] }

NetworkFailures ==
  { [NoUpstream EXCEPT !.outcome = "network", !.code = c] :
      c \in {"ECONNRESET", "ENOTFOUND"} }

\* the reset header parsed to a Date: not a valid date unless it is a number
ParseReset(h) ==
  [valid |-> h.present /\ h.numeric, epoch |-> IF h.present /\ h.numeric THEN h.secs * 1000 ELSE 0]

MessageOf(u) == IF u.body.present THEN "upstream says no" ELSE "request failed"

\* status to error class
Classify(u) ==
  CASE u.outcome = "timeout" ->
         [Err("GitHubTimeoutError", "request timed out") EXCEPT !.timeoutMs = TIMEOUT_MS]
    [] u.outcome = "network" ->
         [Err("GitHubNetworkError", "network failure") EXCEPT !.errorCode = u.code]
    [] u.outcome = "response" /\ u.status = 401 ->
         [Err("GitHubAuthenticationError", MessageOf(u)) EXCEPT !.status = 401, !.response = u.body]
    [] u.outcome = "response" /\ u.status = 403 /\ u.remainingZero ->
         [Err("GitHubRateLimitError", MessageOf(u)) EXCEPT
            !.status = 403, !.response = u.body, !.resetAt = ParseReset(u.reset)]
    [] u.outcome = "response" /\ u.status = 403 /\ ~u.remainingZero ->
         [Err("GitHubPermissionError", MessageOf(u)) EXCEPT !.status = 403, !.response = u.body]
    [] u.outcome = "response" /\ u.status = 404 ->
         [Err("GitHubResourceNotFoundError", MessageOf(u)) EXCEPT !.status = 404, !.response = u.body]
    [] u.outcome = "response" /\ u.status = 409 ->
         [Err("GitHubConflictError", MessageOf(u)) EXCEPT !.status = 409, !.response = u.body]
    [] u.outcome = "response" /\ u.status = 422 ->
         [Err("GitHubValidationError", MessageOf(u)) EXCEPT !.status = 422, !.response = u.body]
    [] OTHER ->
         [Err("GitHubError", MessageOf(u)) EXCEPT !.status = u.status, !.response = u.body]

OwnerError == [Err("GitHubValidationError", "invalid owner name") EXCEPT !.status = 422]
RepoError  == [Err("GitHubValidationError", "invalid repository name") EXCEPT !.status = 422]

----------------------------------------------------------------------------
(* index.ts 22-62: formatGitHubError and errorHandler; createToolResponse  *)
(* and createErrorResponse of common/utils.                                *)

\* Date.prototype.toISOString: throws RangeError on an invalid date
toISOStringThrows(d) == ~d.valid
toISOString(d) == "T+" \o ToString(d.epoch) \o "ms"

\* JSON.stringify of a decoded body
JSONstringify(b) == b.json

\* index.ts 35-36 is the only statement of formatGitHubError that can throw
formatGitHubErrorThrows(e) ==
  e.class = "GitHubRateLimitError" /\ toISOStringThrows(e.resetAt)

\* index.ts 22-45; a message is the sequence of the pieces it is built from
formatGitHubError(e) ==
  CASE e.class = "GitHubValidationError" ->
         IF e.response.present
         THEN <<"Validation Error: ", e.message, "\nDetails: ", JSONstringify(e.response)>>
         ELSE <<"Validation Error: ", e.message>>
    [] e.class = "GitHubResourceNotFoundError" -> <<"Not Found: ", e.message>>
    [] e.class = "GitHubAuthenticationError" -> <<"Authentication Failed: ", e.message>>
    [] e.class = "GitHubPermissionError" -> <<"Permission Denied: ", e.message>>
    [] e.class = "GitHubRateLimitError" ->
         <<"Rate Limit Exceeded: ", e.message, "\nResets at: ", toISOString(e.resetAt)>>
    [] e.class = "GitHubConflictError" -> <<"Conflict: ", e.message>>
    [] e.class = "GitHubTimeoutError" ->
         <<"Timeout: ", e.message, "\nTimeout setting: ", ToString(e.timeoutMs), "ms">>
    [] e.class = "GitHubNetworkError" ->
         <<"Network Error: ", e.message, "\nError code: ", e.errorCode>>
    [] OTHER -> <<"GitHub API Error: ", e.message>>

\* index.ts 54-62: the message of the Error that errorHandler returns
errorHandler(e) ==
  IF e.class = "ZodError" THEN <<"Invalid input: ", e.message>>
  ELSE IF isGitHubError(e) THEN formatGitHubError(e)
  ELSE <<e.message>>

errorHandlerThrows(e) ==
  e.class # "ZodError" /\ isGitHubError(e) /\ formatGitHubErrorThrows(e)

NoResult   == [present |-> FALSE, success |-> FALSE, message |-> <<>>, payload |-> NoJson]
Payload(p) == [present |-> TRUE, success |-> FALSE, message |-> <<>>, payload |-> p]
Ack(m)     == [present |-> TRUE, success |-> TRUE, message |-> m, payload |-> NoJson]

NoResponse == [present |-> FALSE, isError |-> FALSE, content |-> NoResult, text |-> <<>>]
createToolResponse(r)  == [present |-> TRUE, isError |-> FALSE, content |-> r, text |-> <<>>]
createErrorResponse(m) == [present |-> TRUE, isError |-> TRUE, content |-> NoResult, text |-> m]

----------------------------------------------------------------------------
(* The registered tools (index.ts 88-280).                                 *)

NoCall == [owner |-> <<>>, repo |-> <<>>, f |-> NoFields, inputs |-> NoInputs]

Call(o, r, f, i) == [owner |-> o, repo |-> r, f |-> f, inputs |-> i]

\* the fields of its parameters a handler hands to the operation
Pass(p, names, withInputs) ==
  [owner |-> p.owner, repo |-> p.repo,
   f |-> [n \in ParamNames |-> IF n \in names THEN p.f[n] ELSE Undefined],
   inputs |-> IF withInputs THEN p.inputs ELSE NoInputs]

ToolRegistrations_renamed ==
  <<"list_workflows", "get_workflow", "get_workflow_usage",
    "list_workflow_runs", "get_workflow_run", "get_workflow_run_jobs",
    "trigger_workflow", "cancel_workflow_run", "rerun_run">>

\* the names given to server.tool, in source order
ToolRegistrations ==
  <<"list_workflows", "get_workflow", "get_workflow_usage",
    "list_workflow_runs", "get_workflow_run", "get_workflow_run_jobs",
    "trigger_workflow", "cancel_workflow_run", "rerun_workflow">>

RegisteredNames == {registered[i] : i \in 1..Len(registered)}

Init ==
  /\ registered = <<>>
  /\ pc = "loading"
  /\ tool = ""
  /\ params = NoCall
  /\ op = ""
  /\ args = NoCall
  /\ owner = <<>>
  /\ repo = <<>>
  /\ validated = {}
  /\ request = NoRequest
  /\ sent = <<>>
  /\ upstream = NoUpstream
  /\ raw = NoJson
  /\ raised = NoError
  /\ result = NoResult
  /\ caught = NoError
  /\ response = NoResponse
  /\ escaped = FALSE

\* module load: the next server.tool(name, description, shape, handler)
RegisterTool ==
  /\ pc = "loading"
  /\ Len(registered) < Len(ToolRegistrations)
  /\ registered' = Append(registered, ToolRegistrations[Len(registered) + 1])
  /\ UNCHANGED <<pc, tool, params, op, args, owner, repo, validated, request,
                 sent, upstream, raw, raised, result, caught, response, escaped>>

\* runServer(): the server is connected and tool calls can arrive
runServer ==
  /\ pc = "loading"
  /\ Len(registered) = Len(ToolRegistrations)
  /\ pc' = "idle"
  /\ UNCHANGED <<registered, tool, params, op, args, owner, repo, validated,
                 request, sent, upstream, raw, raised, result, caught,
                 response, escaped>>

\* the handler registered at position k is entered with parameters of its
\* schema and calls its operation
Enter(k, schema, inputMaps, operation, names, withInputs) ==
  /\ pc = "idle"
  /\ k <= Len(registered)
  /\ \E o \in OwnerNames, r \in RepoNames, f \in schema, i \in inputMaps :
       /\ params' = Call(o, r, f, i)
       /\ args' = Pass(Call(o, r, f, i), names, withInputs)
       /\ owner' = o
       /\ repo' = r
  /\ tool' = registered[k]
  /\ op' = operation
  /\ pc' = "called"
  /\ UNCHANGED <<registered, validated, request, sent, upstream, raw, raised, result,
                 caught, response, escaped>>

list_workflows ==
  Enter(1, ListWorkflowsSchema, {NoInputs},
        "listWorkflows", {"page", "perPage"}, FALSE)

get_workflow ==
  Enter(2, GetWorkflowSchema, {NoInputs},
        "getWorkflow", {"workflowId"}, FALSE)

get_workflow_usage ==
  Enter(3, GetWorkflowUsageSchema, {NoInputs},
        "getWorkflowUsage", {"workflowId"}, FALSE)

list_workflow_runs ==
  Enter(4, ListWorkflowRunsSchema, {NoInputs},
        "listWorkflowRuns",
        {"workflowId", "actor", "branch", "event", "status", "created",
         "excludePullRequests", "checkSuiteId", "page", "perPage"}, FALSE)

get_workflow_run ==
  Enter(5, GetWorkflowRunSchema, {NoInputs},
        "getWorkflowRun", {"runId"}, FALSE)

get_workflow_run_jobs ==
  Enter(6, GetWorkflowRunJobsSchema, {NoInputs},
        "getWorkflowRunJobs", {"runId", "filter", "page", "perPage"}, FALSE)

trigger_workflow ==
  Enter(7, TriggerWorkflowSchema, InputMaps,
        "triggerWorkflow", {"workflowId", "ref"}, TRUE)

cancel_workflow_run ==
  Enter(8, CancelWorkflowRunSchema, {NoInputs},
        "cancelWorkflowRun", {"runId"}, FALSE)

rerun_workflow ==
  Enter(9, RerunWorkflowSchema, {NoInputs},
        "rerunWorkflowRun", {"runId"}, FALSE)

----------------------------------------------------------------------------
(* One operation call, statement by statement.                             *)

Throw(e) ==
  /\ raised' = e
  /\ pc' = "raised"

\* owner = validateOwnerName(owner): first statement of every operation
ValidateOwner ==
  /\ pc = "called"
  /\ IF OwnerNameValid(owner)
     THEN /\ validated' = validated \cup {"owner"}
          /\ pc' = "ownerOk"
          /\ UNCHANGED raised
     ELSE /\ Throw(OwnerError)
          /\ UNCHANGED validated
  /\ UNCHANGED <<registered, tool, params, op, args, owner, repo, request, sent, upstream,
                 raw, result, caught, response, escaped>>

\* repo = validateRepositoryName(repo): second statement of every operation
ValidateRepo ==
  /\ pc = "ownerOk"
  /\ IF RepositoryNameValid(repo)
     THEN /\ validated' = validated \cup {"repo"}
          /\ pc' = "repoOk"
          /\ UNCHANGED raised
     ELSE /\ Throw(RepoError)
          /\ UNCHANGED validated
  /\ UNCHANGED <<registered, tool, params, op, args, owner, repo, request, sent, upstream,
                 raw, result, caught, response, escaped>>

CanBuild_afterOwner == pc \in {"ownerOk", "repoOk"}

\* the URL (and body) statements come after both validator statements
CanBuild == pc = "repoOk"

BuildRequest ==
  /\ CanBuild
  /\ request' = RequestOf(op, owner, repo, args.f, args.inputs)
  /\ pc' = "built"
  /\ UNCHANGED <<registered, tool, params, op, args, owner, repo, validated, sent,
                 upstream, raw, raised, result, caught, response, escaped>>

CanSend_retry ==
  \/ pc = "built"
  \/ pc = "raised" /\ upstream.outcome # "" /\ raised.class # "ZodError"

\* githubRequest is called once, with the request just built
CanSend == pc = "built"

SendRequest ==
  /\ CanSend
  /\ sent' = Append(sent, request)
  /\ pc' = "awaiting"
  /\ UNCHANGED <<registered, tool, params, op, args, owner, repo, validated, request,
                 upstream, raw, raised, result, caught, response, escaped>>

\* await githubRequest(...): a 2xx answer is decoded and returned
RequestSucceeds ==
  /\ pc = "awaiting"
  /\ \E u \in Successes(op) :
       /\ upstream' = u
       /\ raw' = u.body
  /\ pc' = "returned"
  /\ UNCHANGED <<registered, tool, params, op, args, owner, repo, validated, request,
                 sent, raised, result, caught, response, escaped>>

Settle(outcomes) ==
  /\ pc = "awaiting"
  /\ \E u \in outcomes :
       /\ upstream' = u
       /\ Throw(Classify(u))
  /\ UNCHANGED <<registered, tool, params, op, args, owner, repo, validated, request,
                 sent, raw, result, caught, response, escaped>>

\* await githubRequest(...): a non-2xx answer raises its classified error
RequestFails == Settle(Failures)

\* await githubRequest(...): no answer within the timeout
RequestTimesOut == Settle(Timeouts)

\* await githubRequest(...): the transport failed
RequestNetworkError == Settle(NetworkFailures)

\* return XSchema.parse(response): last statement of every read operation
ParseResponse ==
  /\ pc = "returned"
  /\ op \in ReadOps
  /\ IF SchemaAccepts(SchemaOf(op), raw)
     THEN /\ result' = Payload(SchemaParse(SchemaOf(op), raw))
          /\ pc' = "resolved"
          /\ UNCHANGED raised
     ELSE /\ Throw(ZodError(SchemaOf(op), raw))
          /\ UNCHANGED result
  /\ UNCHANGED <<registered, tool, params, op, args, owner, repo, validated, request,
                 sent, upstream, raw, caught, response, escaped>>

CanAcknowledge_swallow == pc \in {"returned", "raised"} /\ Len(sent) > 0

\* the return statement of a write operation follows the awaited request
CanAcknowledge == pc = "returned"

Acknowledge ==
  /\ CanAcknowledge
  /\ op \in WriteOps
  /\ result' = Ack(AckMessage(op, args.f))
  /\ pc' = "resolved"
  /\ UNCHANGED <<registered, tool, params, op, args, owner, repo, validated, request,
                 sent, upstream, raw, raised, caught, response, escaped>>

\* handler: return createToolResponse(result)
HandlerReturn ==
  /\ pc = "resolved"
  /\ response' = createToolResponse(result)
  /\ pc' = "done"
  /\ UNCHANGED <<registered, tool, params, op, args, owner, repo, validated, request,
                 sent, upstream, raw, raised, result, caught, escaped>>

\* handler: catch (error) { return createErrorResponse(errorHandler(error)) }
HandlerCatch ==
  /\ pc = "raised"
  /\ caught' = raised
  /\ IF errorHandlerThrows(raised)
     THEN /\ escaped' = TRUE
          /\ UNCHANGED response
     ELSE /\ response' = createErrorResponse(errorHandler(raised))
          /\ UNCHANGED escaped
  /\ pc' = "done"
  /\ UNCHANGED <<registered, tool, params, op, args, owner, repo, validated, request,
                 sent, upstream, raw, raised, result>>

\* the call is over and nothing of it is kept
Discard ==
  /\ pc = "done"
  /\ pc' = "idle"
  /\ UNCHANGED registered
  /\ tool' = ""
  /\ params' = NoCall
  /\ op' = ""
  /\ args' = NoCall
  /\ owner' = <<>>
  /\ repo' = <<>>
  /\ validated' = {}
  /\ request' = NoRequest
  /\ sent' = <<>>
  /\ upstream' = NoUpstream
  /\ raw' = NoJson
  /\ raised' = NoError
  /\ result' = NoResult
  /\ caught' = NoError
  /\ response' = NoResponse
  /\ escaped' = FALSE

Next ==
  \/ RegisterTool
  \/ runServer
  \/ list_workflows
  \/ get_workflow
  \/ get_workflow_usage
  \/ list_workflow_runs
  \/ get_workflow_run
  \/ get_workflow_run_jobs
  \/ trigger_workflow
  \/ cancel_workflow_run
  \/ rerun_workflow
  \/ ValidateOwner
  \/ ValidateRepo
  \/ BuildRequest
  \/ SendRequest
  \/ RequestSucceeds
  \/ RequestFails
  \/ RequestTimesOut
  \/ RequestNetworkError
  \/ ParseResponse
  \/ Acknowledge
  \/ HandlerReturn
  \/ HandlerCatch
  \/ Discard

Spec == Init /\ [][Next]_vars

----------------------------------------------------------------------------
(* Properties.                                                             *)

Includes(m, piece) == \E i \in 1..Len(m) : m[i] = piece

Built == request # NoRequest

\* C1: listWorkflowRuns requests the per-workflow runs path whenever
\* options.workflowId is defined (0 and "" included) and the repository-wide
\* runs path whenever it is undefined.
C1_PathByDefinedness ==
  (op = "listWorkflowRuns" /\ Built) =>
    request.url.path =
      IF IsDefined(args.f.workflowId)
      THEN WorkflowRunsPath(owner, repo, args.f.workflowId)
      ELSE RepoRunsPath(owner, repo)

\* C2: in every operation a request is built or sent only after the owner
\* validator and then the repo validator have passed; when a validator fails
\* the call ends with that error and nothing is built or sent.
C2_ValidationBeforeRequest ==
  /\ ("repo" \in validated) => ("owner" \in validated)
  /\ (Built \/ Len(sent) > 0) =>
       /\ validated = {"owner", "repo"}
       /\ OwnerNameValid(owner)
       /\ RepositoryNameValid(repo)
  /\ (pc \in {"raised", "done"} /\ validated # {"owner", "repo"}) =>
       /\ ~Built
       /\ sent = <<>>
       /\ upstream = NoUpstream
       /\ raised = IF "owner" \in validated THEN RepoError ELSE OwnerError
       /\ ~result.present

C2_Witness ==
  /\ pc = "done"
  /\ validated = {"owner"}
  /\ caught = RepoError
  /\ sent = <<>>

\* C3: a call hands at most one request to the HTTP adapter, and once that
\* request has an outcome (2xx, error status, timeout, network failure) the
\* call is never waiting for or about to send a request again.
C3_AtMostOneRequest ==
  /\ Len(sent) <= 1
  /\ upstream.outcome # "" =>
       /\ Len(sent) = 1
       /\ pc \in {"returned", "raised", "resolved", "done"}

C3_Witness ==
  /\ pc = "done"
  /\ upstream.outcome = "timeout"
  /\ Len(sent) = 1
  /\ response.isError

\* C4: the body triggerWorkflow posts has only the key ref when inputs is
\* undefined or has no keys, and ref plus inputs, holding exactly the
\* caller's entries, when inputs has at least one key.
C4_TriggerBody ==
  (op = "triggerWorkflow" /\ Len(sent) > 0) =>
    /\ sent[1].method = "POST"
    /\ sent[1].body.ref = ToStr(params.f.ref)
    /\ IF ~params.inputs.defined \/ params.inputs.entries = {}
       THEN sent[1].body.keys = {"ref"}
       ELSE /\ sent[1].body.keys = {"ref", "inputs"}
            /\ sent[1].body.inputs = params.inputs.entries

C4_Witness ==
  /\ op = "triggerWorkflow"
  /\ Len(sent) = 1
  /\ params.inputs = Inputs({})
  /\ sent[1].body.keys = {"ref"}

FilterFields == {"actor", "branch", "event", "status", "created",
                 "excludePullRequests", "checkSuiteId", "page", "perPage"}

QueryKeyOf(n) ==
  CASE n = "excludePullRequests" -> "exclude_pull_requests"
    [] n = "checkSuiteId"        -> "check_suite_id"
    [] n = "perPage"             -> "per_page"
    [] OTHER                     -> n

\* C5: the query keys of the listWorkflowRuns request are exactly the filter
\* fields defined in the caller's options, each with its value as a string
\* (excludePullRequests as "true" or "false"); no absent field appears.
C5_QueryKeysAreDefinedFilters ==
  (op = "listWorkflowRuns" /\ Built) =>
    /\ QueryKeys(request.url) =
         {QueryKeyOf(n) : n \in {m \in FilterFields : IsDefined(params.f[m])}}
    /\ \A n \in FilterFields :
         IsDefined(params.f[n]) /\ QueryKeyOf(n) \in QueryKeys(request.url) =>
           QueryValue(request.url, QueryKeyOf(n)) = ToStr(params.f[n])

Succeeded2xx ==
  /\ upstream.outcome = "response"
  /\ upstream.status \in 200..299

\* C6: a write operation returns {success: true, message} only after its one
\* POST came back 2xx without raising; for cancel and rerun the message
\* contains the runId passed in; when the request raises there is no
\* acknowledgment.
C6_AckOnlyAfterPost ==
  /\ (op \in WriteOps /\ result.present) =>
       /\ result.success
       /\ Len(sent) = 1
       /\ sent[1].method = "POST"
       /\ Succeeded2xx
       /\ raised = NoError
  /\ (op \in {"cancelWorkflowRun", "rerunWorkflowRun"} /\ result.present) =>
       Includes(result.message, ToStr(params.f.runId))
  /\ (op \in WriteOps /\ raised # NoError) =>
       /\ ~result.present
       /\ response.present => response.isError

C6_Witness ==
  /\ op = "cancelWorkflowRun"
  /\ pc = "done"
  /\ response.present
  /\ ~response.isError
  /\ response.content.success
  /\ params.f.runId = Num(2)
  /\ Includes(response.content.message, "2")

\* the error each raise site makes for the state the call is in
RaisedAtSite ==
  IF validated # {"owner", "repo"}
  THEN IF "owner" \in validated THEN RepoError ELSE OwnerError
  ELSE IF ~Succeeded2xx THEN Classify(upstream)
  ELSE ZodError(SchemaOf(op), raw)

\* C7: a finished call has exactly one outcome, a result (a schema-validated
\* payload for a read, the acknowledgment for a write) or one error; the
\* error the handler catches is the one the validator, the adapter or the
\* schema raised, unchanged; a call that raised never has a result.
C7_OneOutcomeNoCatch ==
  /\ pc = "done" => (result.present <=> caught = NoError)
  /\ pc = "done" => (response.present \/ escaped)
  /\ (result.present /\ op \in ReadOps) =>
       /\ Succeeded2xx
       /\ SchemaAccepts(SchemaOf(op), raw)
       /\ result.payload.fields = RequiredFields(SchemaOf(op))
  /\ (result.present /\ op \in WriteOps) => result.success
  /\ raised # NoError => ~result.present
  /\ caught # NoError =>
       /\ caught = raised
       /\ caught = RaisedAtSite

C7_Witness ==
  /\ pc = "done"
  /\ caught.class = "GitHubNetworkError"
  /\ caught.errorCode = "ECONNRESET"
  /\ ~result.present
  /\ response.isError

KindPrefix(c) ==
  CASE c = "GitHubValidationError"       -> "Validation Error: "
    [] c = "GitHubResourceNotFoundError" -> "Not Found: "
    [] c = "GitHubAuthenticationError"   -> "Authentication Failed: "
    [] c = "GitHubPermissionError"       -> "Permission Denied: "
    [] c = "GitHubRateLimitError"        -> "Rate Limit Exceeded: "
    [] c = "GitHubConflictError"         -> "Conflict: "
    [] c = "GitHubTimeoutError"          -> "Timeout: "
    [] c = "GitHubNetworkError"          -> "Network Error: "
    [] c = "GitHubError"                 -> "GitHub API Error: "

\* C8: every caught error of the nine GitHub kinds becomes an error response
\* whose message starts with the prefix of its own kind (no two kinds share
\* one) and carries the kind's detail: the reset time of a rate-limit error,
\* the timeout of a timeout error, the code of a network error, the raw
\* response body of a validation error that has one.
C8_EveryKindFormatted ==
  /\ \A c, d \in GitHubErrorClasses : c # d => KindPrefix(c) # KindPrefix(d)
  /\ (pc = "done" /\ isGitHubError(caught)) =>
       /\ response.present
       /\ response.isError
       /\ response.text[1] = KindPrefix(caught.class)
       /\ Includes(response.text, caught.message)
       /\ caught.class = "GitHubRateLimitError" =>
            Includes(response.text, toISOString(caught.resetAt))
       /\ caught.class = "GitHubTimeoutError" =>
            Includes(response.text, ToString(caught.timeoutMs))
       /\ caught.class = "GitHubNetworkError" =>
            Includes(response.text, caught.errorCode)
       /\ (caught.class = "GitHubValidationError" /\ caught.response.present) =>
            Includes(response.text, JSONstringify(caught.response))

\* the labels the boundary gives to a rejection of the caller's parameters
InputRejectionPrefixes == {"Invalid input: ", "Validation Error: "}

\* C9: a read operation validates the decoded body against its schema after
\* the request returned and before a result exists; a body that fails the
\* schema yields no payload and reaches the caller as a generic failure whose
\* message is not labelled as a rejection of the caller's input.
C9_SchemaFailureIsGeneric ==
  /\ (op \in ReadOps /\ result.present) =>
       /\ Len(sent) = 1
       /\ SchemaAccepts(SchemaOf(op), raw)
  /\ (op \in ReadOps /\ pc = "done" /\ Succeeded2xx
        /\ ~SchemaAccepts(SchemaOf(op), raw)) =>
       /\ ~result.present
       /\ response.present
       /\ response.isError
       /\ response.content = NoResult
       /\ response.text[1] \notin InputRejectionPrefixes

\* the tool-surface table: capability of each name and its parameters
\* besides owner and repo
TableOp(n) ==
  CASE n = "list_workflows"        -> "listWorkflows"
    [] n = "get_workflow"          -> "getWorkflow"
    [] n = "get_workflow_usage"    -> "getWorkflowUsage"
    [] n = "list_workflow_runs"    -> "listWorkflowRuns"
    [] n = "get_workflow_run"      -> "getWorkflowRun"
    [] n = "get_workflow_run_jobs" -> "getWorkflowRunJobs"
    [] n = "trigger_workflow"      -> "triggerWorkflow"
    [] n = "cancel_workflow_run"   -> "cancelWorkflowRun"
    [] n \in {"rerun_workflow_run", "rerun_workflow"} -> "rerunWorkflowRun"
    [] OTHER                       -> "none"

TableParams(n) ==
  CASE n = "list_workflows"        -> {"page", "perPage"}
    [] n = "get_workflow"          -> {"workflowId"}
    [] n = "get_workflow_usage"    -> {"workflowId"}
    [] n = "list_workflow_runs"    -> {"workflowId"} \cup FilterFields
    [] n = "get_workflow_run"      -> {"runId"}
    [] n = "get_workflow_run_jobs" -> {"runId", "filter", "page", "perPage"}
    [] n = "trigger_workflow"      -> {"workflowId", "ref"}
    [] n = "cancel_workflow_run"   -> {"runId"}
    [] n \in {"rerun_workflow_run", "rerun_workflow"} -> {"runId"}
    [] OTHER                       -> {}

BoundAsInTable ==
  tool # "" =>
    /\ tool \in RegisteredNames
    /\ op = TableOp(tool)
    /\ args.owner = params.owner
    /\ args.repo = params.repo
    /\ \A n \in ParamNames :
         args.f[n] = IF n \in TableParams(tool) THEN params.f[n] ELSE Undefined
    /\ \A n \in ParamNames \ TableParams(tool) : params.f[n] = Undefined
    /\ args.inputs = params.inputs
    /\ params.inputs.defined => tool = "trigger_workflow"

\* C10 as stated: once the server runs, the registered names are exactly the
\* nine of the table, rerun_workflow_run among them, each bound to the
\* operation of its capability with the table's parameters.
C10_TableNamesRegistered ==
  pc # "loading" =>
    /\ RegisteredNames =
         {"list_workflows", "get_workflow", "get_workflow_usage",
          "list_workflow_runs", "get_workflow_run", "get_workflow_run_jobs",
          "trigger_workflow", "cancel_workflow_run", "rerun_workflow_run"}
    /\ BoundAsInTable

\* C10 amended: once the server runs, the registered names are exactly the
\* eight first names of the table and rerun_workflow (not rerun_workflow_run),
\* each bound to the operation of its capability and passing it exactly the
\* parameters the table lists.
C10_RegisteredNames ==
  pc # "loading" =>
    /\ RegisteredNames =
         {"list_workflows", "get_workflow", "get_workflow_usage",
          "list_workflow_runs", "get_workflow_run", "get_workflow_run_jobs",
          "trigger_workflow", "cancel_workflow_run", "rerun_workflow"}
    /\ Len(registered) = 9
    /\ BoundAsInTable

C10_Witness ==
  /\ pc = "called"
  /\ tool = "rerun_workflow"
  /\ op = "rerunWorkflowRun"
  /\ args.f.runId = Num(1)

\* C12: every handler is total: whatever the operation's outcome, a finished
\* call has returned a tool response or an error response and no exception
\* has left the handler.
C12_HandlerTotal ==
  pc = "done" =>
    /\ response.present
    /\ ~escaped

----------------------------------------------------------------------------
(* Several tool calls in flight.  Every call has its own activation of the *)
(* handler and of the operation: under ConcSpec each variable but          *)
(* `registered` holds one value per call, and the steps of the calls       *)
(* interleave.                                                             *)

MaxCalls == 2

Calls == 1..MaxCalls

\* the answers drawn for a pending request when calls interleave
ConcSuccesses(o_p) ==
  IF o_p \in ReadOps
  THEN { Answer(200, JsonBody("full", SchemaOf(o_p), RequiredFields(SchemaOf(o_p)))),
         Answer(200, NoJson) }
  ELSE { Answer(204, NoJson) }

ConcFailures ==
  { Answer(404, ErrorBody),
    [Answer(403, ErrorBody) EXCEPT !.remainingZero = TRUE, !.reset = NoHeader] }

\* the parameters drawn when calls interleave: two different run ids
ConcParams(schema) == { f \in schema : f.runId \in {Num(1), Num(2)} }

ConcInit ==
  /\ registered = ToolRegistrations
  /\ pc = [c \in Calls |-> "idle"]
  /\ tool = [c \in Calls |-> ""]
  /\ params = [c \in Calls |-> NoCall]
  /\ op = [c \in Calls |-> ""]
  /\ args = [c \in Calls |-> NoCall]
  /\ owner = [c \in Calls |-> <<>>]
  /\ repo = [c \in Calls |-> <<>>]
  /\ validated = [c \in Calls |-> {}]
  /\ request = [c \in Calls |-> NoRequest]
  /\ sent = [c \in Calls |-> <<>>]
  /\ upstream = [c \in Calls |-> NoUpstream]
  /\ raw = [c \in Calls |-> NoJson]
  /\ raised = [c \in Calls |-> NoError]
  /\ result = [c \in Calls |-> NoResult]
  /\ caught = [c \in Calls |-> NoError]
  /\ response = [c \in Calls |-> NoResponse]
  /\ escaped = [c \in Calls |-> FALSE]

FrameOf_shared(c) == 1

\* the activation whose parameters and locals call c reads: its own
FrameOf(c) == c

\* call c enters the handler registered at position k
CallEnter(c, k, schema, operation, names) ==
  /\ pc[c] = "idle"
  /\ k <= Len(registered)
  /\ \E o \in OwnerNames, f \in ConcParams(schema) :
       /\ params' = [params EXCEPT ![c] = Call(o, <<"r", "1">>, f, NoInputs)]
       /\ args' = [args EXCEPT
                     ![c] = Pass(Call(o, <<"r", "1">>, f, NoInputs), names, FALSE)]
       /\ owner' = [owner EXCEPT ![c] = o]
       /\ repo' = [repo EXCEPT ![c] = <<"r", "1">>]
  /\ tool' = [tool EXCEPT ![c] = registered[k]]
  /\ op' = [op EXCEPT ![c] = operation]
  /\ pc' = [pc EXCEPT ![c] = "called"]
  /\ UNCHANGED <<registered, validated, request, sent, upstream, raw, raised,
                 result, caught, response, escaped>>

CallGetWorkflowRun(c) ==
  CallEnter(c, 5, GetWorkflowRunSchema, "getWorkflowRun", {"runId"})

CallCancelWorkflowRun(c) ==
  CallEnter(c, 8, CancelWorkflowRunSchema, "cancelWorkflowRun", {"runId"})

CallThrow(c, e) ==
  /\ raised' = [raised EXCEPT ![c] = e]
  /\ pc' = [pc EXCEPT ![c] = "raised"]

CallValidateOwner(c) ==
  /\ pc[c] = "called"
  /\ IF OwnerNameValid(owner[FrameOf(c)])
     THEN /\ validated' = [validated EXCEPT ![c] = @ \cup {"owner"}]
          /\ pc' = [pc EXCEPT ![c] = "ownerOk"]
          /\ UNCHANGED raised
     ELSE /\ CallThrow(c, OwnerError)
          /\ UNCHANGED validated
  /\ UNCHANGED <<registered, tool, params, op, args, owner, repo, request,
                 sent, upstream, raw, result, caught, response, escaped>>

CallValidateRepo(c) ==
  /\ pc[c] = "ownerOk"
  /\ IF RepositoryNameValid(repo[FrameOf(c)])
     THEN /\ validated' = [validated EXCEPT ![c] = @ \cup {"repo"}]
          /\ pc' = [pc EXCEPT ![c] = "repoOk"]
          /\ UNCHANGED raised
     ELSE /\ CallThrow(c, RepoError)
          /\ UNCHANGED validated
  /\ UNCHANGED <<registered, tool, params, op, args, owner, repo, request,
                 sent, upstream, raw, result, caught, response, escaped>>

CallBuildRequest(c) ==
  /\ pc[c] = "repoOk"
  /\ request' = [request EXCEPT
                   ![c] = RequestOf(op[c], owner[FrameOf(c)], repo[FrameOf(c)],
                                    args[FrameOf(c)].f, args[FrameOf(c)].inputs)]
  /\ pc' = [pc EXCEPT ![c] = "built"]
  /\ UNCHANGED <<registered, tool, params, op, args, owner, repo, validated,
                 sent, upstream, raw, raised, result, caught, response, escaped>>

CallSendRequest(c) ==
  /\ pc[c] = "built"
  /\ sent' = [sent EXCEPT ![c] = Append(@, request[FrameOf(c)])]
  /\ pc' = [pc EXCEPT ![c] = "awaiting"]
  /\ UNCHANGED <<registered, tool, params, op, args, owner, repo, validated,
                 request, upstream, raw, raised, result, caught, response,
                 escaped>>

\* the network-await point: other calls run while call c waits here
CallRequestSucceeds(c) ==
  /\ pc[c] = "awaiting"
  /\ \E u \in ConcSuccesses(op[c]) :
       /\ upstream' = [upstream EXCEPT ![c] = u]
       /\ raw' = [raw EXCEPT ![c] = u.body]
  /\ pc' = [pc EXCEPT ![c] = "returned"]
  /\ UNCHANGED <<registered, tool, params, op, args, owner, repo, validated,
                 request, sent, raised, result, caught, response, escaped>>

CallRequestFails(c) ==
  /\ pc[c] = "awaiting"
  /\ \E u \in ConcFailures :
       /\ upstream' = [upstream EXCEPT ![c] = u]
       /\ CallThrow(c, Classify(u))
  /\ UNCHANGED <<registered, tool, params, op, args, owner, repo, validated,
                 request, sent, raw, result, caught, response, escaped>>

CallParseResponse(c) ==
  /\ pc[c] = "returned"
  /\ op[c] \in ReadOps
  /\ IF SchemaAccepts(SchemaOf(op[c]), raw[FrameOf(c)])
     THEN /\ result' = [result EXCEPT
                          ![c] = Payload(SchemaParse(SchemaOf(op[c]), raw[FrameOf(c)]))]
          /\ pc' = [pc EXCEPT ![c] = "resolved"]
          /\ UNCHANGED raised
     ELSE /\ CallThrow(c, ZodError(SchemaOf(op[c]), raw[FrameOf(c)]))
          /\ UNCHANGED result
  /\ UNCHANGED <<registered, tool, params, op, args, owner, repo, validated,
                 request, sent, upstream, raw, caught, response, escaped>>

CallAcknowledge(c) ==
  /\ pc[c] = "returned"
  /\ op[c] \in WriteOps
  /\ result' = [result EXCEPT ![c] = Ack(AckMessage(op[c], args[FrameOf(c)].f))]
  /\ pc' = [pc EXCEPT ![c] = "resolved"]
  /\ UNCHANGED <<registered, tool, params, op, args, owner, repo, validated,
                 request, sent, upstream, raw, raised, caught, response, escaped>>

CallHandlerReturn(c) ==
  /\ pc[c] = "resolved"
  /\ response' = [response EXCEPT ![c] = createToolResponse(result[FrameOf(c)])]
  /\ pc' = [pc EXCEPT ![c] = "done"]
  /\ UNCHANGED <<registered, tool, params, op, args, owner, repo, validated,
                 request, sent, upstream, raw, raised, result, caught, escaped>>

CallHandlerCatch(c) ==
  /\ pc[c] = "raised"
  /\ caught' = [caught EXCEPT ![c] = raised[FrameOf(c)]]
  /\ IF errorHandlerThrows(raised[FrameOf(c)])
     THEN /\ escaped' = [escaped EXCEPT ![c] = TRUE]
          /\ UNCHANGED response
     ELSE /\ response' = [response EXCEPT
                            ![c] = createErrorResponse(errorHandler(raised[FrameOf(c)]))]
          /\ UNCHANGED escaped
  /\ pc' = [pc EXCEPT ![c] = "done"]
  /\ UNCHANGED <<registered, tool, params, op, args, owner, repo, validated,
                 request, sent, upstream, raw, raised, result>>

CallDiscard(c) ==
  /\ pc[c] = "done"
  /\ pc' = [pc EXCEPT ![c] = "idle"]
  /\ tool' = [tool EXCEPT ![c] = ""]
  /\ params' = [params EXCEPT ![c] = NoCall]
  /\ op' = [op EXCEPT ![c] = ""]
  /\ args' = [args EXCEPT ![c] = NoCall]
  /\ owner' = [owner EXCEPT ![c] = <<>>]
  /\ repo' = [repo EXCEPT ![c] = <<>>]
  /\ validated' = [validated EXCEPT ![c] = {}]
  /\ request' = [request EXCEPT ![c] = NoRequest]
  /\ sent' = [sent EXCEPT ![c] = <<>>]
  /\ upstream' = [upstream EXCEPT ![c] = NoUpstream]
  /\ raw' = [raw EXCEPT ![c] = NoJson]
  /\ raised' = [raised EXCEPT ![c] = NoError]
  /\ result' = [result EXCEPT ![c] = NoResult]
  /\ caught' = [caught EXCEPT ![c] = NoError]
  /\ response' = [response EXCEPT ![c] = NoResponse]
  /\ escaped' = [escaped EXCEPT ![c] = FALSE]
  /\ UNCHANGED registered

ConcNext ==
  \E c \in Calls :
    \/ CallGetWorkflowRun(c)
    \/ CallCancelWorkflowRun(c)
    \/ CallValidateOwner(c)
    \/ CallValidateRepo(c)
    \/ CallBuildRequest(c)
    \/ CallSendRequest(c)
    \/ CallRequestSucceeds(c)
    \/ CallRequestFails(c)
    \/ CallParseResponse(c)
    \/ CallAcknowledge(c)
    \/ CallHandlerReturn(c)
    \/ CallHandlerCatch(c)
    \/ CallDiscard(c)

ConcSpec == ConcInit /\ [][ConcNext]_vars

\* what a call with these parameters asks of the upstream, taken alone
OwnRequest(t, p) ==
  RequestOf(TableOp(t), p.owner, p.repo,
            Pass(p, TableParams(t), FALSE).f, NoInputs)

\* how a call with these parameters and this upstream answer ends, taken
\* alone: the response handed back and whether an exception left the handler
OwnError(t, p, u) ==
  IF ~OwnerNameValid(p.owner) THEN OwnerError
  ELSE IF ~RepositoryNameValid(p.repo) THEN RepoError
  ELSE IF ~(u.outcome = "response" /\ u.status \in 200..299) THEN Classify(u)
  ELSE IF TableOp(t) \in ReadOps /\ ~SchemaAccepts(SchemaOf(TableOp(t)), u.body)
       THEN ZodError(SchemaOf(TableOp(t)), u.body)
  ELSE NoError

OwnOutcome(t, p, u) ==
  LET e == OwnError(t, p, u)
      o == TableOp(t)
  IN  IF e # NoError
      THEN IF errorHandlerThrows(e)
           THEN [response |-> NoResponse, escaped |-> TRUE]
           ELSE [response |-> createErrorResponse(errorHandler(e)),
                 escaped |-> FALSE]
      ELSE IF o \in ReadOps
           THEN [response |->
                   createToolResponse(Payload(SchemaParse(SchemaOf(o), u.body))),
                 escaped |-> FALSE]
           ELSE [response |->
                   createToolResponse(Ack(AckMessage(o, Pass(p, TableParams(t), FALSE).f))),
                 escaped |-> FALSE]

\* C11: with several calls in flight and interleaving at their await points,
\* the request each call sends (url, method, body) and the response or error
\* it ends with are those its own parameters and its own upstream answer
\* give, whatever the other calls are doing.
C11_CallsIndependent ==
  \A c \in Calls :
    /\ tool[c] = "" => (request[c] = NoRequest /\ sent[c] = <<>>)
    /\ request[c] # NoRequest => request[c] = OwnRequest(tool[c], params[c])
    /\ Len(sent[c]) <= 1
    /\ sent[c] # <<>> => sent[c][1] = OwnRequest(tool[c], params[c])
    /\ pc[c] = "done" =>
         /\ response[c] = OwnOutcome(tool[c], params[c], upstream[c]).response
         /\ escaped[c] = OwnOutcome(tool[c], params[c], upstream[c]).escaped

C11_Witness ==
  \E c, d \in Calls :
    /\ c # d
    /\ tool[c] = "cancel_workflow_run"
    /\ tool[d] = "cancel_workflow_run"
    /\ params[c].f.runId = Num(2)
    /\ params[d].f.runId = Num(1)
    /\ pc[d] = "awaiting"
    /\ pc[c] = "done"
    /\ sent[c] # sent[d]
    /\ response[c].content.success
    /\ Includes(response[c].content.message, "2")

====
